---- MODULE Spec2Model ----
(***************************************************************************)
(* A model of reindexer.go: a TCP server that accepts one JSON request per *)
(* connection (ping / reindex), and for reindex captures a watermark from  *)
(* the tail of searchd.log, runs the external indexer, and polls the log   *)
(* for the rotation-complete marker.                                       *)
(*                                                                         *)
(* Bytes are modelled at token granularity: a payload or a buffer is a     *)
(* sequence of tokens, each with a byte length, so that the 1024-byte read *)
(* buffer and the 1024-byte log window keep their real sizes.              *)
(***************************************************************************)
EXTENDS Integers, Sequences, FiniteSets, TLC

(* ------------------------------------------------------------------ *)
(* Program constants                                                   *)
(* ------------------------------------------------------------------ *)

\* buf := make([]byte, 1024)
BufSize == 1024

\* math.Min(1024, ...) in both seeks
Window == 1024

\* for loop := 0; loop < 10; loop++
MaxLoop == 10

\* bufio.NewScanner(file): one Read of the scanner fills at most its
\* initial buffer of 4096 bytes
ScanChunk == 4096

(* ------------------------------------------------------------------ *)
(* Bounds of the model                                                 *)
(* ------------------------------------------------------------------ *)

\* the log holds at most this many lines
MaxLog == 3

(* ------------------------------------------------------------------ *)
(* Helpers                                                             *)
(* ------------------------------------------------------------------ *)

Min(a, b) == IF a < b THEN a ELSE b

Max(a, b) == IF a > b THEN a ELSE b

(* ------------------------------------------------------------------ *)
(* Bytes on the wire: tokens                                           *)
(* ------------------------------------------------------------------ *)

\* k: kind, s: text, n: byte count of a run (whitespace, NUL)
Tok(k, s, n) == [k |-> k, s |-> s, n |-> n]

Pun(ch) == Tok("pun", ch, 1)

\* a JSON string literal "s" (two quotes around the text)
Str(s) == Tok("str", s, Len(s) + 2)

\* a JSON number literal
Num(s) == Tok("num", s, Len(s))

\* n bytes of JSON whitespace
Ws(n) == Tok("ws", " ", n)

\* n zero bytes: the part of make([]byte, 1024) that Read did not fill
Nul(n) == Tok("nul", "\\x00", n)

\* bytes that start no JSON value
Bad(s) == Tok("bad", s, Len(s))

\* the first n bytes of a token cut by the end of the buffer
Cut(n) == Tok("cut", "", n)

RECURSIVE ByteLen(_)
ByteLen(toks) ==
    IF toks = <<>> THEN 0 ELSE Head(toks).n + ByteLen(Tail(toks))

\* the first n bytes of toks
RECURSIVE TakeBytes(_, _)
TakeBytes(toks, n) ==
    IF n <= 0 \/ toks = <<>> THEN <<>>
    ELSE LET t == Head(toks) IN
         IF t.n <= n THEN <<t>> \o TakeBytes(Tail(toks), n - t.n)
         ELSE IF t.k \in {"ws", "nul"} THEN <<Tok(t.k, t.s, n)>>
         ELSE <<Cut(n)>>

(* ------------------------------------------------------------------ *)
(* Request / Response                                                  *)
(* ------------------------------------------------------------------ *)

\* type Request struct { Type string; Index string }, zero value
ZeroRequest == [Type |-> "", Index |-> ""]

\* type Response struct { Message string; Error string }
Response(m, e) == [Message |-> m, Error |-> e]

(* ------------------------------------------------------------------ *)
(* conn.Read(buf)                                                      *)
(* ------------------------------------------------------------------ *)

\* buf after a successful Read of the payload: at most BufSize bytes are
\* copied, the rest of the zero-initialised buffer stays NUL
ReadBuf(payload) ==
    LET n == Min(ByteLen(payload), BufSize) IN
    TakeBytes(payload, n) \o (IF n < BufSize THEN <<Nul(BufSize - n)>> ELSE <<>>)

(* ------------------------------------------------------------------ *)
(* json.Unmarshal(buf, &request)                                       *)
(* ------------------------------------------------------------------ *)

SyntaxError(t, ctx) ==
    IF t.k = "cut" THEN "unexpected end of JSON input"
    ELSE "invalid character '" \o t.s \o "' " \o ctx

\* keys match struct fields case-insensitively
FieldOf(key) ==
    IF key \in {"Type", "type", "TYPE"} THEN "Type"
    ELSE IF key \in {"Index", "index", "INDEX"} THEN "Index"
    ELSE ""

\* the scanner and decoder over the whole buffer; acc = [req, key, terr]
RECURSIVE Scan(_, _, _, _)
Scan(toks, i, st, acc) ==
    IF i > Len(toks)
    THEN IF st # "endTop" THEN [err |-> "unexpected end of JSON input", req |-> acc.req]
         ELSE IF acc.terr THEN [err |-> "json: cannot unmarshal number into Go value of type string",
                                req |-> acc.req]
         ELSE [err |-> "", req |-> acc.req]
    ELSE
    LET t == toks[i]
        fail(ctx) == [err |-> SyntaxError(t, ctx), req |-> acc.req]
        go(st2, acc2) == Scan(toks, i + 1, st2, acc2)
    IN
    IF t.k = "ws" THEN go(st, acc)
    ELSE IF st = "beginTop" THEN
        IF t = Pun("{") THEN go("keyOrEnd", acc)
        ELSE IF t.k \in {"str", "num"} THEN go("endTop", [acc EXCEPT !.terr = TRUE])
        ELSE fail("looking for beginning of value")
    ELSE IF st \in {"keyOrEnd", "key"} THEN
        IF t.k = "str" THEN go("colon", [acc EXCEPT !.key = t.s])
        ELSE IF st = "keyOrEnd" /\ t = Pun("}") THEN go("endTop", acc)
        ELSE fail("looking for beginning of object key string")
    ELSE IF st = "colon" THEN
        IF t = Pun(":") THEN go("value", acc)
        ELSE fail("after object key")
    ELSE IF st = "value" THEN
        IF t.k = "str" THEN
            go("commaOrEnd",
               IF FieldOf(acc.key) = "" THEN acc
               ELSE [acc EXCEPT !.req = [acc.req EXCEPT ![FieldOf(acc.key)] = t.s]])
        ELSE IF t.k = "num" THEN
            go("commaOrEnd",
               IF FieldOf(acc.key) = "" THEN acc ELSE [acc EXCEPT !.terr = TRUE])
        ELSE fail("looking for beginning of value")
    ELSE IF st = "commaOrEnd" THEN
        IF t = Pun(",") THEN go("key", acc)
        ELSE IF t = Pun("}") THEN go("endTop", acc)
        ELSE fail("after object key:value pair")
    ELSE \* st = "endTop": only whitespace may follow the top-level value
        fail("after top-level value")

\* err = "" when the decode succeeded
Unmarshal(buf) ==
    Scan(buf, 1, "beginTop", [req |-> ZeroRequest, key |-> "", terr |-> FALSE])

(* ------------------------------------------------------------------ *)
(* Payloads a client may send                                          *)
(* ------------------------------------------------------------------ *)

Obj(type, index) ==
    << Pun("{"), Str("Type"), Pun(":"), Str(type), Pun(","),
       Str("Index"), Pun(":"), Str(index), Pun("}") >>

\* documents that are well-formed JSON
GoodDocs ==
    { Obj("ping", "main"), Obj("reindex", "main"), Obj("status", "main"),
      << Pun("{"), Pun("}") >>,
      << Pun("{"), Str("Type"), Pun(":"), Num("5"), Pun("}") >> }

\* documents that are not
BadDocs ==
    { << Pun("{"), Str("Type"), Pun(":") >>,
      << Bad("?") >> }

\* a document alone, or followed by whitespace up to exactly the buffer size
Padded(doc) == { doc, doc \o << Ws(BufSize - ByteLen(doc)) >> }

Payloads ==
    UNION { Padded(d) : d \in GoodDocs \cup BadDocs }
    \cup { \* longer than the buffer: trailing whitespace is cut by Read
           Obj("ping", "main") \o << Ws(BufSize) >>,
           \* longer than the buffer: the document itself is cut by Read
           << Ws(BufSize - 3) >> \o Obj("ping", "main") }

(* ------------------------------------------------------------------ *)
(* Instants (time.Time)                                                *)
(* ------------------------------------------------------------------ *)

\* an instant: whole seconds counted from baseDate, and milliseconds
Instant(sec, ms) == [sec |-> sec, ms |-> ms]

\* baseDate, _ = time.Parse(dateFormat, "Fri Sep 7 10:00:00 2012"):
\* the origin of the model's seconds
baseDate == Instant(0, 0)

\* time.Time{}: year 1, before every date of the model
ZeroTime == Instant(-100000, 0)

\* t.After(u)
After(t, u) == t.sec > u.sec \/ (t.sec = u.sec /\ t.ms > u.ms)

\* t.Add(time.Millisecond * n): a new instant, t itself is not changed
Add(t, n) == Instant(t.sec + ((t.ms + n) \div 1000), (t.ms + n) % 1000)

(* ------------------------------------------------------------------ *)
(* searchd.log: a sequence of lines, appended to by searchd            *)
(* ------------------------------------------------------------------ *)

\* len("rotating index: all indexes done")
MarkerLen == 32

\* pfx:    the line starts with a bracketed "[<date>.<ms> <year>]"
\* dateOk: <date> <year> parses under dateFormat; sec: its value
\* ms:     the three digits after the dot
\* marker: the line ends with "rotating index: all indexes done"
\* len:    bytes of the line, its newline included
Line(pfx, dateOk, sec, ms, marker, len) ==
    [pfx |-> pfx, dateOk |-> dateOk, sec |-> sec, ms |-> ms, marker |-> marker, len |-> len]

\* "[Fri Sep 7 10:00:0s.mmm 2012] rotating index: all indexes done"
Done(sec, ms) == Line(TRUE, TRUE, sec, ms, TRUE, 64)

\* "[Fri Sep 7 10:00:0s.mmm 2012] WARNING: ...": a long line with a timestamp
Big(sec, ms) == Line(TRUE, TRUE, sec, ms, FALSE, 512)

\* "-- crash --": no bracketed prefix
Junk == Line(FALSE, FALSE, 0, 0, FALSE, 12)

\* "": an empty line
Blank == Line(FALSE, FALSE, 0, 0, FALSE, 1)

\* no line at all (nothing was read)
NoLine == Line(FALSE, FALSE, 0, 0, FALSE, 0)

\* the lines searchd may append (all with a date that parses)
LineKinds ==
    { Big(0, 100), Done(0, 500), Done(1, 0), Junk, Blank }

\* scanner.Text() of a line: empty when the line holds its newline only
IsEmptyText(line) == line.len <= 1

\* fileInfo.Size()
RECURSIVE FileLen(_)
FileLen(lg) == IF lg = <<>> THEN 0 ELSE Head(lg).len + FileLen(Tail(lg))

\* what is left of a line when reading starts d bytes into it: the
\* bracketed prefix at its start is gone
Partial(line, d) ==
    Line(FALSE, FALSE, 0, 0, line.marker /\ line.len - d > MarkerLen, line.len - d)

\* the lines a scanner yields reading from byte offset off to the end
RECURSIVE LinesFrom(_, _)
LinesFrom(lg, off) ==
    IF lg = <<>> THEN <<>>
    ELSE IF off = 0 THEN lg
    ELSE IF off >= Head(lg).len THEN LinesFrom(Tail(lg), off - Head(lg).len)
    ELSE << Partial(Head(lg), off) >> \o Tail(lg)

\* SeekFromEnd without the cap of 1024 bytes
SeekFromEndUncapped(fileLength, end) == end - Max(fileLength - 1, 0)

\* file.Seek(int64(-math.Min(1024, math.Max(float64(fileLength - 1), 0))), 2):
\* the offset reached, counted back from the end of the file at seek time
SeekFromEnd(fileLength, end) == end - Min(Window, Max(fileLength - 1, 0))

(* ------------------------------------------------------------------ *)
(* timeFromLog                                                         *)
(* ------------------------------------------------------------------ *)

\* date, _ := time.Parse(dateFormat, dateStr + " " + year)
ParseDate(line) == IF line.dateOk THEN Instant(line.sec, 0) ELSE ZeroTime

\* the instant the line's text states, milliseconds included
StatedInstant(line) == Add(ParseDate(line), line.ms)

\* searchdLogLinePrefix must match; the result of date.Add(...) is
\* dropped and date is returned as parsed
timeFromLog(line) ==
    IF line.pfx
    THEN LET date == ParseDate(line)
             shifted == Add(date, line.ms)
         IN [err |-> "", date |-> date]
    ELSE [err |-> "Could not match a timestamp prefix", date |-> ZeroTime]

(* ------------------------------------------------------------------ *)
(* State                                                               *)
(* ------------------------------------------------------------------ *)

\* server: the listener ("init", "listening", "exited")
\* conn:   per connection, the state of its handleRequest goroutine
\* log:    the lines of searchd.log
VARIABLES server, conn, log

vars == << server, conn, log >>

\* the connections of the model
Conns == {"c1"}

\* A handler's record:
\*   pc         where handleRequest stands
\*   payload    the bytes the client sends
\*   buf        buf after conn.Read
\*   request    the decoded Request
\*   wire       what the handler did on the connection, in order:
\*              [op |-> "write", resp |-> <Response>] and [op |-> "close"]
\*   readErr    conn.Read returned an error
\*   fileLength fileInfo.Size() of the last Stat
\*   lastDate   the watermark (threshold of waitForRotation)
\*   wmStated   the instant stated by the line the watermark was taken from,
\*              its milliseconds included (baseDate when no line was read)
\*   pos        the offset of waitForRotation's file handle
\*   loop       waitForRotation's loop variable
\*   iters      the number of loop bodies executed
\*   hit        the loop was left by break
\*   seen       the line inspected by the latest loop body
\*   sawDone    some inspected line held the marker and stated an instant
\*              after wmStated
\*   runs       how often cmd.Run() was called
\*   runErr     cmd.Run() returned an error
\*   readFrom   the offset the latest file.Seek(..., 2) reached (-1 before any)
\*   readEnd    the length of the log at that Seek (-1 before any)
\*   during     a response was written on this connection while the handler
\*              of another connection stood inside reindex
\*   rotated    searchd has logged the rotation this request's indexer asked for
\*   overlap    cmd.Run() was called while the indexer of another connection ran
\*   afterErr   the connection was accepted after another connection's
\*              request had ended in an error
FreshConn ==
    [ pc |-> "free", payload |-> <<>>, buf |-> <<>>, request |-> ZeroRequest,
      wire |-> <<>>, readErr |-> FALSE, fileLength |-> 0, lastDate |-> ZeroTime,
      wmStated |-> ZeroTime,
      pos |-> 0, loop |-> 0, iters |-> 0, hit |-> FALSE, seen |-> NoLine,
      sawDone |-> FALSE, runs |-> 0, runErr |-> FALSE,
      readFrom |-> -1, readEnd |-> -1,
      during |-> FALSE, rotated |-> FALSE, overlap |-> FALSE, afterErr |-> FALSE ]

Init ==
    /\ server = "init"
    /\ conn = [c \in Conns |-> FreshConn]
    /\ log = <<>>

(* ------------------------------------------------------------------ *)
(* The connection                                                      *)
(* ------------------------------------------------------------------ *)

\* conn.Write(toJson(r))
ConnWrite(wire, r) == Append(wire, [op |-> "write", resp |-> r])

\* conn.Close()
ConnClose(wire) == Append(wire, [op |-> "close", resp |-> Response("", "")])

\* the responses written on a connection, in order
RECURSIVE Written(_)
Written(wire) ==
    IF wire = <<>> THEN <<>>
    ELSE IF Head(wire).op = "write" THEN << Head(wire).resp >> \o Written(Tail(wire))
    ELSE Written(Tail(wire))

(* ------------------------------------------------------------------ *)
(* The responses of handleRequest                                      *)
(* ------------------------------------------------------------------ *)

DecodeErrorResponse(err) == Response("", "Could not decode the request JSON: " \o err)

PongResponse == Response("pong", "")

\* UnknownResponse without its "Unknown request: " text
UnknownResponseBare(type) == Response("", type)

UnknownResponse(type) == Response("", "Unknown request: " \o type)

ReindexErrorResponse(err) == Response("", "Reindexing error: " \o err)

OkResponse == Response("OK", "")

(* ------------------------------------------------------------------ *)
(* startListening                                                      *)
(* ------------------------------------------------------------------ *)

\* net.Listen: on error the process exits
Listen ==
    /\ server = "init"
    /\ \E ok \in BOOLEAN : server' = IF ok THEN "listening" ELSE "exited"
    /\ UNCHANGED << conn, log >>

\* the request of h ended in an error: Read failed, or a response with an
\* Error was written
Failed(h) ==
    \/ h.readErr
    \/ \E i \in 1..Len(h.wire) : h.wire[i].op = "write" /\ h.wire[i].resp.Error # ""

\* l.Accept() returned a connection whose client sends one of the payloads
\* of P: go handleRequest(conn)
AcceptFrom(c, P) ==
    /\ server = "listening"
    /\ conn[c].pc = "free"
    /\ \E p \in P :
         conn' = [conn EXCEPT ![c] =
                    [@ EXCEPT !.pc = "read", !.payload = p,
                              !.afterErr = \E o \in DOMAIN conn \ {c} : Failed(conn[o])]]
    /\ UNCHANGED << server, log >>

Accept(c) == AcceptFrom(c, Payloads)

\* os.Exit(1) ends every goroutine: what a handler held in memory is gone,
\* what it did on its connection and to the indexer is not
Killed(h) ==
    [FreshConn EXCEPT !.pc = IF h.pc \in {"free", "closed"} THEN h.pc ELSE "killed",
                      !.payload = h.payload, !.wire = h.wire, !.readErr = h.readErr,
                      !.runs = h.runs, !.runErr = h.runErr, !.rotated = h.rotated]

\* l.Accept() returned an error: os.Exit(1)
AcceptFail ==
    /\ server = "listening"
    /\ server' = "exited"
    /\ conn' = [c \in DOMAIN conn |-> Killed(conn[c])]
    /\ UNCHANGED log

(* ------------------------------------------------------------------ *)
(* handleRequest                                                       *)
(* ------------------------------------------------------------------ *)

\* the handler stands inside reindex(request.Index)
InReindex(h) ==
    h.pc \in {"capOpen", "capRead", "run", "running", "pollOpen", "pollSeek", "poll"}

\* h, with the note that a response was written while another handler
\* stood inside reindex
Noted(c, h) ==
    IF /\ Len(h.wire) > Len(conn[c].wire)
       /\ h.wire[Len(h.wire)].op = "write"
       /\ \E o \in DOMAIN conn \ {c} : InReindex(conn[o])
    THEN [h EXCEPT !.during = TRUE]
    ELSE h

\* Step with one lock around every handler: no handler moves while another
\* stands between its Read and its return
StepSerial(c, h) ==
    /\ server = "listening"
    /\ \A o \in DOMAIN conn \ {c} : conn[o].pc \in {"free", "read", "closed"}
    /\ conn' = [conn EXCEPT ![c] = Noted(c, h)]
    /\ UNCHANGED << server, log >>

\* one step of the handler of c: the process runs, and h is the new record;
\* the goroutines share no variable, so no other record changes
Step(c, h) ==
    /\ server = "listening"
    /\ conn' = [conn EXCEPT ![c] = Noted(c, h)]
    /\ UNCHANGED << server, log >>

\* write a response and return (the deferred Close is still to run)
Reply(h, r) == [h EXCEPT !.wire = ConnWrite(h.wire, r), !.pc = "closing"]

\* HandleRead without the "return err" after a failed Read: the handler goes
\* on to decode the untouched buffer
HandleReadNoReturn(c) ==
    /\ conn[c].pc = "read"
    /\ \E ok \in BOOLEAN :
         Step(c, IF ok
                 THEN [conn[c] EXCEPT !.buf = ReadBuf(conn[c].payload), !.pc = "decode"]
                 ELSE [conn[c] EXCEPT !.readErr = TRUE, !.buf = << Nul(BufSize) >>,
                                      !.pc = "decode"])

\* HandleRead with os.Exit(1) after a failed Read
HandleReadFatal(c) ==
    /\ conn[c].pc = "read"
    /\ \E ok \in BOOLEAN :
         IF ok
         THEN Step(c, [conn[c] EXCEPT !.buf = ReadBuf(conn[c].payload), !.pc = "decode"])
         ELSE /\ server = "listening"
              /\ server' = "exited"
              /\ conn' = [o \in DOMAIN conn |->
                            Killed([conn[o] EXCEPT !.readErr = @ \/ o = c])]
              /\ UNCHANGED log

\* setKeepAlive, buf := make([]byte, 1024), conn.Read(buf)
HandleRead(c) ==
    /\ conn[c].pc = "read"
    /\ \E ok \in BOOLEAN :
         Step(c, IF ok
                 THEN [conn[c] EXCEPT !.buf = ReadBuf(conn[c].payload), !.pc = "decode"]
                 ELSE [conn[c] EXCEPT !.readErr = TRUE, !.pc = "closing"])

\* json.Unmarshal and the dispatch on request.Type
HandleDecode(c) ==
    /\ conn[c].pc = "decode"
    /\ LET d == Unmarshal(conn[c].buf)
           h == [conn[c] EXCEPT !.request = d.req]
       IN Step(c, IF d.err # "" THEN Reply(h, DecodeErrorResponse(d.err))
                  ELSE IF d.req.Type = "ping" THEN Reply(h, PongResponse)
                  ELSE IF d.req.Type # "reindex" THEN Reply(h, UnknownResponse(d.req.Type))
                  ELSE [h EXCEPT !.pc = "capOpen"])

\* defer conn.Close()
CloseConn(c) ==
    /\ conn[c].pc = "closing"
    /\ Step(c, [conn[c] EXCEPT !.wire = ConnClose(conn[c].wire), !.pc = "closed"])

(* ------------------------------------------------------------------ *)
(* searchd writes its log                                              *)
(* ------------------------------------------------------------------ *)

LogAppend ==
    /\ server = "listening"
    /\ Len(log) < MaxLog
    /\ \E l \in LineKinds : log' = Append(log, l)
    /\ UNCHANGED << server, conn >>

(* ------------------------------------------------------------------ *)
(* reindex: getLastTimestamp                                           *)
(* ------------------------------------------------------------------ *)

\* reindex returned err: handleRequest writes the error response
ReindexFail(h, err) == Reply(h, ReindexErrorResponse(err))

\* os.Open and file.Stat of getLastTimestamp
CaptureOpen(c) ==
    /\ conn[c].pc = "capOpen"
    /\ \E r \in {"ok", "open", "stat"} :
         Step(c, IF r = "ok"
                 THEN [conn[c] EXCEPT !.fileLength = FileLen(log), !.pc = "capRead"]
                 ELSE ReindexFail(conn[c],
                        IF r = "open"
                        THEN "open /var/log/sphinxsearch/searchd.log: no such file or directory"
                        ELSE "stat /var/log/sphinxsearch/searchd.log: input/output error"))

\* file.Seek and readLines of getLastTimestamp: lines[len(lines) - 1], or
\* NoLine when len(lines) == 0
LastLine(lg, fileLength) ==
    LET lines == LinesFrom(lg, SeekFromEnd(fileLength, FileLen(lg))) IN
    IF Len(lines) = 0 THEN NoLine ELSE lines[Len(lines)]

\* the result of getLastTimestamp once the file is open and its size known
LastTimestamp(lg, fileLength) ==
    LET last == LastLine(lg, fileLength) IN
    IF last = NoLine THEN [err |-> "", date |-> baseDate]
    ELSE timeFromLog(last)

\* CaptureRead without the check of getLastTimestamp's error: reindex goes
\* on to the indexer with whatever date came back
CaptureReadNoCheck(c) ==
    /\ conn[c].pc = "capRead"
    /\ LET t == LastTimestamp(log, conn[c].fileLength)
           last == LastLine(log, conn[c].fileLength)
           h == [conn[c] EXCEPT !.readFrom = SeekFromEnd(conn[c].fileLength, FileLen(log)),
                                !.readEnd = FileLen(log)]
       IN Step(c, [h EXCEPT !.lastDate = t.date,
                            !.wmStated = IF last = NoLine THEN baseDate
                                         ELSE StatedInstant(last),
                            !.pc = "run"])

\* file.Seek, readLines, timeFromLog of getLastTimestamp
CaptureRead(c) ==
    /\ conn[c].pc = "capRead"
    /\ LET t == LastTimestamp(log, conn[c].fileLength)
           last == LastLine(log, conn[c].fileLength)
           h == [conn[c] EXCEPT !.readFrom = SeekFromEnd(conn[c].fileLength, FileLen(log)),
                                !.readEnd = FileLen(log)]
       IN Step(c, IF t.err # "" THEN ReindexFail(h, t.err)
                  ELSE [h EXCEPT !.lastDate = t.date,
                                       !.wmStated = IF last = NoLine THEN baseDate
                                                    ELSE StatedInstant(last),
                                       !.pc = "run"])

(* ------------------------------------------------------------------ *)
(* reindex: the external indexer                                       *)
(* ------------------------------------------------------------------ *)

\* what reindex does with the error of cmd.Run(): it is assigned to err
\* and never read, waitForRotation is called in any case
AfterRun(h, failed) == [h EXCEPT !.pc = "pollOpen"]

\* RunIndexer under a lock held from cmd.Run() to the return of
\* waitForRotation
RunIndexerExclusive(c) ==
    /\ conn[c].pc = "run"
    /\ \A o \in DOMAIN conn \ {c} :
          conn[o].pc \notin {"running", "pollOpen", "pollSeek", "poll"}
    /\ Step(c, [conn[c] EXCEPT !.runs = @ + 1, !.pc = "running",
                               !.overlap = FALSE])

\* RunIndexer with cmd.Start() for cmd.Run(): reindex goes on to
\* waitForRotation while the indexer runs
RunIndexerAsync(c) ==
    /\ conn[c].pc = "run"
    /\ Step(c, [conn[c] EXCEPT !.runs = @ + 1, !.pc = "pollOpen"])

\* cmd := exec.Command(indexerBinPath, ...); cmd.Run() starts the indexer
\* and waits for it
RunIndexer(c) ==
    /\ conn[c].pc = "run"
    /\ Step(c, [conn[c] EXCEPT !.runs = @ + 1, !.pc = "running",
                               !.overlap = \E o \in DOMAIN conn \ {c} :
                                              conn[o].pc = "running"])

\* the indexer has exited, failing or not as F allows: cmd.Run() returns,
\* err = its error
IndexerExitWith(c, F) ==
    /\ conn[c].pc = "running"
    /\ \E failed \in F :
         Step(c, AfterRun([conn[c] EXCEPT !.runErr = failed], failed))

IndexerExit(c) == IndexerExitWith(c, BOOLEAN)

(* ------------------------------------------------------------------ *)
(* reindex: waitForRotation                                            *)
(* ------------------------------------------------------------------ *)

\* os.Open and file.Stat of waitForRotation
PollOpen(c) ==
    /\ conn[c].pc = "pollOpen"
    /\ \E r \in {"ok", "open", "stat"} :
         Step(c, IF r = "ok"
                 THEN [conn[c] EXCEPT !.fileLength = FileLen(log), !.pc = "pollSeek"]
                 ELSE ReindexFail(conn[c],
                        IF r = "open"
                        THEN "open /var/log/sphinxsearch/searchd.log: no such file or directory"
                        ELSE "stat /var/log/sphinxsearch/searchd.log: input/output error"))

\* file.Seek(..., 2) before the loop; the log only grows, so the offset
\* is never negative and the seek does not fail
PollSeek(c) ==
    /\ conn[c].pc = "pollSeek"
    /\ Step(c, [conn[c] EXCEPT !.pos = SeekFromEnd(conn[c].fileLength, FileLen(log)),
                               !.readFrom = SeekFromEnd(conn[c].fileLength, FileLen(log)),
                               !.readEnd = FileLen(log),
                               !.loop = 0, !.pc = "poll"])

\* LoopGuard with <= for <
LoopGuardInclusive(loop) == loop <= MaxLoop

\* loop < 10
LoopGuard(loop) == loop < MaxLoop

\* re matches the line: the bracketed prefix, then the marker
ReMatches(line) == line.pfx /\ line.marker

\* Inspect with timeFromLog called on every non-empty line, before the match
InspectStrict(line, threshold) ==
    IF IsEmptyText(line) THEN "skip"
    ELSE LET t == timeFromLog(line) IN
         IF t.err # "" THEN "error"
         ELSE IF ReMatches(line) /\ After(t.date, threshold) THEN "break"
         ELSE "skip"

\* the body of the loop on the line scanned: "break", "error" or "skip"
Inspect(line, threshold) ==
    IF IsEmptyText(line) THEN "skip"
    ELSE IF ReMatches(line)
         THEN LET t == timeFromLog(line) IN
              IF t.err # "" THEN "error"
              ELSE IF After(t.date, threshold) THEN "break"
              ELSE "skip"
         ELSE "skip"

\* the line a fresh scanner on the handle yields at offset pos: the first
\* line from there, or nothing at the end of the file
ScanLine(lg, pos) ==
    IF pos >= FileLen(lg) THEN NoLine ELSE Head(LinesFrom(lg, pos))

\* the offset of the handle after the scanner's Read
ScanEnd(lg, pos) == pos + Min(FileLen(lg) - pos, ScanChunk)

\* the line holds the marker and states an instant after the threshold
StatesDone(line, threshold) ==
    /\ ~IsEmptyText(line)
    /\ ReMatches(line)
    /\ After(StatedInstant(line), threshold)

\* one body of the loop: file.Seek(0, 1), a new scanner, Scan, Text, the match
PollIter(c) ==
    /\ conn[c].pc = "poll"
    /\ LoopGuard(conn[c].loop)
    /\ ~conn[c].hit
    /\ LET line == ScanLine(log, conn[c].pos)
           v == Inspect(line, conn[c].lastDate)
           h == [conn[c] EXCEPT !.pos = ScanEnd(log, conn[c].pos),
                                !.seen = line,
                                !.iters = @ + 1,
                                !.sawDone = @ \/ StatesDone(line, conn[c].wmStated)]
       IN Step(c, IF v = "break" THEN [h EXCEPT !.hit = TRUE]
                  ELSE IF v = "error" THEN ReindexFail(h, timeFromLog(line).err)
                  ELSE [h EXCEPT !.loop = @ + 1])

\* waitForRotation returns nil; handleRequest writes OK
PollReturn(c) ==
    /\ conn[c].pc = "poll"
    /\ conn[c].hit \/ ~LoopGuard(conn[c].loop)
    /\ Step(c, Reply(conn[c], OkResponse))

(* ------------------------------------------------------------------ *)
(* The specification                                                   *)
(* ------------------------------------------------------------------ *)

\* one step of the goroutine handleRequest(conn) of c, apart from the
\* return of cmd.Run()
HandlerStep(c) ==
    \/ HandleRead(c)
    \/ HandleDecode(c)
    \/ CloseConn(c)
    \/ CaptureOpen(c)
    \/ CaptureRead(c)
    \/ RunIndexer(c)
    \/ PollOpen(c)
    \/ PollSeek(c)
    \/ PollIter(c)
    \/ PollReturn(c)

Next ==
    \/ Listen
    \/ AcceptFail
    \/ LogAppend
    \/ \E c \in Conns : Accept(c) \/ HandlerStep(c) \/ IndexerExit(c)

Spec == Init /\ [][Next]_vars

(* ------------------------------------------------------------------ *)
(* Two connections at a time                                           *)
(* ------------------------------------------------------------------ *)

\* how many lines searchd writes of its own accord
MaxLogTwo == 1

ConnsTwo == {"c1", "c2"}

\* a ping and a reindex that fill the buffer, and a ping that does not
PayloadsTwo ==
    { Obj("ping", "main") \o << Ws(BufSize - ByteLen(Obj("ping", "main"))) >>,
      Obj("reindex", "main") \o << Ws(BufSize - ByteLen(Obj("reindex", "main"))) >>,
      Obj("ping", "main") }

\* the lines searchd writes of its own accord
LinesTwo == { Big(0, 100) }

InitTwo ==
    /\ server = "init"
    /\ conn = [c \in ConnsTwo |-> FreshConn]
    /\ log = <<>>

\* what the client of c sends: the client of c2 pings
PayloadsOf(c) ==
    IF c = "c1" THEN PayloadsTwo
    ELSE { p \in PayloadsTwo : Unmarshal(p).req.Type = "ping" }

AcceptTwo(c) == AcceptFrom(c, PayloadsOf(c))

LogAppendTwo ==
    /\ server = "listening"
    /\ Len(SelectSeq(log, LAMBDA l : l \in LinesTwo)) < MaxLogTwo
    /\ \E l \in LinesTwo : log' = Append(log, l)
    /\ UNCHANGED << server, conn >>

\* searchd, signalled by the indexer that c started with --rotate, logs
\* that it rotated the indexes
RotationDone(c) ==
    /\ server = "listening"
    /\ conn[c].runs = 1
    /\ ~conn[c].rotated
    /\ log' = Append(log, Done(1, 0))
    /\ conn' = [conn EXCEPT ![c] = [@ EXCEPT !.rotated = TRUE]]
    /\ UNCHANGED server

NextTwo ==
    \/ Listen
    \/ AcceptFail
    \/ LogAppendTwo
    \/ \E c \in ConnsTwo :
         AcceptTwo(c) \/ HandlerStep(c) \/ IndexerExit(c) \/ RotationDone(c)

SpecTwo == InitTwo /\ [][NextTwo]_vars

(* ------------------------------------------------------------------ *)
(* Two reindex requests at a time                                      *)
(* ------------------------------------------------------------------ *)

\* both clients send a reindex request that fills the buffer, and the
\* indexers do not fail
PayloadsRace == { p \in PayloadsTwo : ReadBuf(p) = p /\ Unmarshal(p).req.Type = "reindex" }

AcceptRace(c) == AcceptFrom(c, PayloadsRace)

NextRace ==
    \/ Listen
    \/ AcceptFail
    \/ \E c \in ConnsTwo :
         \/ AcceptRace(c)
         \/ HandlerStep(c)
         \/ IndexerExitWith(c, {FALSE})
         \/ RotationDone(c)

SpecRace == InitTwo /\ [][NextRace]_vars

(* ------------------------------------------------------------------ *)
(* Properties                                                          *)
(* ------------------------------------------------------------------ *)

\* handleRequest has returned on c (its response, if any, is written)
Returned(c) == conn[c].pc \in {"closing", "closed"}

\* the request the client's bytes state, read as JSON on their own
Sent(c) == Unmarshal(conn[c].payload)

\* the payload is well-formed JSON (whatever the types of its values)
WellFormed(payload) ==
    Unmarshal(payload).err
        \in {"", "json: cannot unmarshal number into Go value of type string"}

\* the reindex of c never started: no log read, no indexer run
Untouched(c) ==
    /\ conn[c].runs = 0
    /\ conn[c].iters = 0
    /\ conn[c].lastDate = ZeroTime
    /\ conn[c].wmStated = ZeroTime
    /\ conn[c].fileLength = 0

\* the decode errors Unmarshal can report on the payloads of the model
DecodeErrors ==
    ({ Unmarshal(ReadBuf(p)).err : p \in Payloads } \cup { Unmarshal(p).err : p \in Payloads })
        \ {""}

\* r.Error starts with "Could not decode the request JSON: "
IsDecodeError(r) == \E e \in DecodeErrors : r.Error = DecodeErrorResponse(e).Error

\* C1: a well-formed request of Type "ping" (any Index) that the handler has
\* read is answered with exactly {Message:"pong", Error:""}, and neither the
\* log nor the indexer is touched.
C1_PingAnswersPong ==
    \A c \in Conns :
        (Returned(c) /\ ~conn[c].readErr /\ Sent(c).err = "" /\ Sent(c).req.Type = "ping")
            => /\ Written(conn[c].wire) = << PongResponse >>
               /\ Untouched(c)

\* C2: a payload that is not well-formed JSON is answered with an empty
\* Message and an Error starting with "Could not decode the request JSON: ";
\* a payload that is well-formed JSON is never answered with this error.
C2_DecodeErrorIffMalformed ==
    \A c \in Conns :
        (Returned(c) /\ ~conn[c].readErr)
            => LET w == Written(conn[c].wire) IN
               IF WellFormed(conn[c].payload)
               THEN \A i \in 1..Len(w) : ~IsDecodeError(w[i])
               ELSE Len(w) = 1 /\ w[1].Message = "" /\ w[1].Error # "" /\ IsDecodeError(w[1])

\* C3: a well-formed request whose Type is neither "ping" nor "reindex" (the
\* empty string included) is answered with {Message:"", Error:"Unknown
\* request: " + Type}, and neither the log nor the indexer is touched.
C3_UnknownTypeNamed ==
    \A c \in Conns :
        (Returned(c) /\ ~conn[c].readErr /\ Sent(c).err = ""
                     /\ Sent(c).req.Type \notin {"ping", "reindex"})
            => /\ Written(conn[c].wire) = << Response("", "Unknown request: " \o Sent(c).req.Type) >>
               /\ Untouched(c)

\* the wire is a write followed by a close, or a beginning of that
OneWriteThenClose(w) ==
    /\ Len(w) <= 2
    /\ Len(w) >= 1 => w[1].op = "write"
    /\ Len(w) = 2 => w[2].op = "close"

\* C4 as stated: on every path of the handler, a failed read included, exactly
\* one response is written, and the connection is closed after it.
C4_ExactlyOneResponseOnEveryPath ==
    \A c \in Conns :
        /\ OneWriteThenClose(conn[c].wire)
        /\ conn[c].pc = "closed" => Len(conn[c].wire) = 2

\* C4 (amended): when conn.Read succeeded, exactly one response is written on
\* every path (decode failure, ping, unknown kind, reindex failure, reindex
\* success) and the connection is closed after that write, never before it;
\* when conn.Read failed, the connection is closed with no response written.
C4_OneResponseThenClose ==
    \A c \in Conns :
        LET w == conn[c].wire IN
        IF conn[c].readErr
        THEN /\ Written(w) = <<>>
             /\ Len(w) <= 1
             /\ conn[c].pc = "closed" => Len(w) = 1
        ELSE /\ OneWriteThenClose(w)
             /\ Returned(c) => Len(Written(w)) = 1
             /\ conn[c].pc = "closed" => Len(w) = 2

\* a reindex was answered OK and its connection closed
C4_Witness ==
    \E c \in Conns :
        /\ conn[c].pc = "closed"
        /\ conn[c].wire = ConnClose(ConnWrite(<<>>, OkResponse))

\* C5: every response written has exactly one of Message and Error non-empty.
C5_OneFieldPopulated ==
    \A c \in Conns :
        \A i \in 1..Len(Written(conn[c].wire)) :
            LET r == Written(conn[c].wire)[i] IN (r.Message = "") # (r.Error = "")

\* a request with an empty Type was answered
C5_Witness ==
    \E c \in Conns :
        /\ Returned(c)
        /\ conn[c].request.Type = ""
        /\ Written(conn[c].wire) = << UnknownResponse("") >>

\* C6: a reindex is answered {Message:"OK"} only if the run of the external
\* process returned no error; a failed launch is answered "Reindexing error".
C6_OkOnlyIfIndexerRan ==
    \A c \in Conns :
        \A i \in 1..Len(Written(conn[c].wire)) :
            Written(conn[c].wire)[i] = OkResponse => (conn[c].runs = 1 /\ ~conn[c].runErr)

\* C7: the poller executes at most 10 loop bodies, whatever searchd appends
\* meanwhile; when it has returned and no inspected line held the marker with
\* an instant after the watermark, it executed exactly 10 and the reindex is
\* answered OK (no timeout error).
C7_PollBounded ==
    \A c \in Conns :
        /\ conn[c].iters <= MaxLoop
        /\ (Returned(c) /\ conn[c].iters >= 1 /\ ~conn[c].sawDone)
              => /\ conn[c].iters = MaxLoop
                 /\ Written(conn[c].wire) = << OkResponse >>

\* the poll ran out on a log that is not empty
C7_Witness ==
    \E c \in Conns :
        /\ conn[c].pc = "closed"
        /\ conn[c].iters = MaxLoop
        /\ ~conn[c].sawDone
        /\ ~conn[c].hit
        /\ log # <<>>
        /\ Written(conn[c].wire) = << OkResponse >>

\* C8: the poller leaves its loop in an iteration if and only if the line
\* inspected in that iteration holds the marker and states an instant
\* strictly after the watermark (the instant stated by the line the watermark
\* was taken from, or baseDate).
C8_StopsIffDoneLine ==
    \A c \in Conns :
        (conn[c].pc = "poll" /\ conn[c].iters >= 1)
            => (conn[c].hit <=> StatesDone(conn[c].seen, conn[c].wmStated))

\* the latest loop body inspected a non-empty line that fails timestamp extraction
SawUnstamped(c) ==
    /\ conn[c].iters >= 1
    /\ ~IsEmptyText(conn[c].seen)
    /\ timeFromLog(conn[c].seen).err # ""

\* C9 as stated: a non-empty inspected line that fails timestamp extraction
\* aborts the poll, and the handler answers "Reindexing error: ...".
C9_UnstampedLineAborts ==
    \A c \in Conns :
        SawUnstamped(c)
            => /\ Returned(c)
               /\ Written(conn[c].wire)
                    = << ReindexErrorResponse("Could not match a timestamp prefix") >>

\* C9 (amended): a non-empty inspected line that fails timestamp extraction
\* is skipped: the loop goes on to its next iteration and the poll returns
\* no parse error; a parse error ends a reindex only in the watermark
\* capture, before the indexer is run.
C9_UnstampedLineSkipped ==
    \A c \in Conns :
        /\ SawUnstamped(c)
              => /\ ~conn[c].hit
                 /\ conn[c].loop = conn[c].iters
                 /\ \/ conn[c].pc = "poll"
                    \/ Returned(c) /\ Written(conn[c].wire) = << OkResponse >>
        /\ Written(conn[c].wire) = << ReindexErrorResponse("Could not match a timestamp prefix") >>
              => conn[c].iters = 0 /\ conn[c].runs = 0

\* the poller inspected a whole line without a prefix and polls on
C9_Witness ==
    \E c \in Conns :
        /\ conn[c].pc = "poll"
        /\ conn[c].seen = Junk
        /\ conn[c].loop >= 1
        /\ LoopGuard(conn[c].loop)

\* C10: of two log lines with the same date, time of day and year, the one
\* with the larger millisecond field yields the later instant, and equal
\* millisecond fields yield equal instants.
C10_MillisApplied ==
    \A i, j \in 1..Len(log) :
        (log[i].pfx /\ log[j].pfx /\ log[i].dateOk /\ log[j].dateOk /\ log[i].sec = log[j].sec)
            => /\ log[i].ms > log[j].ms
                    => After(timeFromLog(log[i]).date, timeFromLog(log[j]).date)
               /\ log[i].ms = log[j].ms
                    => timeFromLog(log[i]).date = timeFromLog(log[j]).date

\* the record of c holds a Seek made with the length Stat had returned
\* (the log did not grow between Stat and Seek)
Seeked(c) ==
    /\ conn[c].readEnd >= 0
    /\ conn[c].fileLength = conn[c].readEnd
    /\ conn[c].pc # "pollSeek"

\* C11: a watermark captured from a log that holds no line is baseDate, the
\* capture reports no error, and a line inspected later whose text states
\* an instant after baseDate compares after that watermark.
C11_EmptyLogWatermark ==
    \A c \in Conns :
        /\ (conn[c].readEnd = 0 /\ conn[c].runs = 0 /\ conn[c].pc # "capRead")
              => conn[c].pc = "run" /\ conn[c].lastDate = baseDate
        /\ (/\ conn[c].wmStated = baseDate
            /\ conn[c].iters >= 1
            /\ conn[c].seen.pfx /\ conn[c].seen.dateOk
            /\ After(StatedInstant(conn[c].seen), baseDate))
              => /\ conn[c].lastDate = baseDate
                 /\ After(timeFromLog(conn[c].seen).date, conn[c].lastDate)

\* C12: a Seek on a log shorter than the window lands on offset 0, and the
\* capture on a log of one well-formed line takes its watermark from that
\* line and reports no error.
C12_ShortLogReadWhole ==
    \A c \in Conns :
        (Seeked(c) /\ conn[c].readEnd < Window)
            => /\ conn[c].readFrom = 0
               /\ (/\ conn[c].runs = 0
                   /\ Len(log) = 1
                   /\ FileLen(log) = conn[c].readEnd
                   /\ log[1].pfx /\ log[1].dateOk)
                     => /\ conn[c].pc = "run"
                        /\ conn[c].wmStated = StatedInstant(log[1])

\* C16: the line a loop body inspects is the last line of the log as it
\* stands at that iteration.
C16_InspectsLastLine ==
    [][\A c \in Conns :
          (conn'[c].iters > conn[c].iters /\ log # <<>>)
              => conn'[c].seen = log[Len(log)]]_vars

\* C17: every loop body after the first reads a window of its own, which
\* starts at max(0, L - 1024) for the length L of the log at that iteration,
\* and not at an offset left by an earlier iteration.
C17_FreshWindowEachIteration ==
    [][\A c \in Conns :
          (conn'[c].iters > conn[c].iters /\ conn[c].iters >= 1)
              => conn[c].pos = Max(0, FileLen(log) - Window)]_vars

\* C18: the Seek of the watermark capture and the Seek of the poller reach
\* an offset no smaller than L - 1024, L the length of the log at the
\* Seek, and no loop body reads from before the offset of the poller's Seek.
C18_NoReadBeforeWindow ==
    [][\A c \in Conns :
          /\ conn'[c].readEnd >= 0 => conn'[c].readFrom >= conn'[c].readEnd - Window
          /\ conn'[c].iters > conn[c].iters => conn[c].pos >= conn[c].readFrom]_vars

\* both Seeks were made on a log longer than the window, and a loop body read
C18_Witness ==
    \E c \in Conns :
        /\ conn[c].iters >= 1
        /\ conn[c].readEnd > Window + 1
        /\ conn[c].readFrom = conn[c].readEnd - Window
        /\ conn[c].wmStated # ZeroTime /\ conn[c].wmStated # baseDate

\* C20: cmd.Run() is called at most once on a connection, and only after
\* Read succeeded, the buffer decoded to a request of Type "reindex" and
\* getLastTimestamp returned a date without an error (while the process
\* lives, a handler's record tells what it did).
C20_IndexerOnlyForCapturedReindex ==
    \A c \in Conns :
        /\ conn[c].runs <= 1
        /\ (conn[c].runs = 1 /\ server = "listening")
              => /\ ~conn[c].readErr
                 /\ Unmarshal(conn[c].buf).err = ""
                 /\ conn[c].request.Type = "reindex"
                 /\ conn[c].lastDate # ZeroTime
                 /\ conn[c].readEnd >= 0
        /\ (Returned(c) /\ conn[c].readEnd = -1 /\ server = "listening")
              => conn[c].runs = 0

\* a reindex ran the indexer and returned, on a log whose last line had a prefix
C20_Witness ==
    \E c \in Conns :
        /\ conn[c].pc = "closed"
        /\ conn[c].runs = 1
        /\ conn[c].request.Type = "reindex"
        /\ conn[c].wmStated \notin {ZeroTime, baseDate}

\* the responses the request of h calls for, as far as the payload alone
\* decides them: one response, named by the payload unless it is a reindex
OwnReply(h, w) ==
    LET d == Unmarshal(ReadBuf(h.payload)) IN
    IF h.readErr THEN w = <<>>
    ELSE IF d.err # "" THEN w = << DecodeErrorResponse(d.err) >>
    ELSE IF d.req.Type = "ping" THEN w = << PongResponse >>
    ELSE IF d.req.Type # "reindex" THEN w = << UnknownResponse(d.req.Type) >>
    ELSE Len(w) = 1 /\ (w[1] = OkResponse \/ w[1].Message = "")

AcceptLoopRuns ==
    server = "listening"
        => \A c \in DOMAIN conn :
             /\ conn[c].pc = "free" => ENABLED AcceptTwo(c)
             /\ conn[c].pc = "read" => ENABLED HandleRead(c)

\* C14: the step in which a request ends in an error leaves the server
\* listening; the server leaves "listening" only when Accept fails and
\* "init" only through Listen; while it listens, connections are accepted
\* and read whatever became of earlier requests.
C14_ErrorsLeaveServerRunning ==
    /\ []AcceptLoopRuns
    /\ [][/\ server' # server => Listen \/ AcceptFail
          /\ \A c \in DOMAIN conn :
               (~Failed(conn[c]) /\ Failed(conn'[c])) => server' = "listening"]_vars

\* a connection accepted after another request had ended in an error was
\* answered pong
C14_Witness ==
    \E c \in DOMAIN conn : \E o \in DOMAIN conn \ {c} :
        /\ server = "listening"
        /\ Failed(conn[o])
        /\ conn[o].pc = "closed"
        /\ conn[c].afterErr
        /\ conn[c].pc = "closed"
        /\ Written(conn[c].wire) = << PongResponse >>

\* C15: nothing makes a reindex wait for another: a handler about to
\* call cmd.Run() can call it and a handler in its loop can poll, whatever
\* the other handlers do; and the loop is left on a line for its marker and
\* its date alone, whichever rebuild made searchd write it.
C15_NoMutualExclusion ==
    \A c \in DOMAIN conn :
        /\ (server = "listening" /\ conn[c].pc = "run") => ENABLED RunIndexer(c)
        /\ (server = "listening" /\ conn[c].pc = "poll"
                /\ LoopGuard(conn[c].loop) /\ ~conn[c].hit)
              => ENABLED PollIter(c)
        /\ conn[c].hit
              => /\ ReMatches(conn[c].seen)
                 /\ After(timeFromLog(conn[c].seen).date, conn[c].lastDate)

\* two indexers ran at a time, and the poller of b left its loop on the line
\* of a's rotation: searchd has not logged a rotation for b
C15_Witness ==
    \E a \in DOMAIN conn : \E b \in DOMAIN conn \ {a} :
        /\ conn[a].overlap \/ conn[b].overlap
        /\ conn[a].rotated
        /\ ~conn[b].rotated
        /\ conn[b].hit
        /\ conn[b].seen = Done(1, 0)
        /\ log = << Done(1, 0) >>

\* where the handler of c stands tells what its reindex has done so far
OrderedSoFar(c) ==
    /\ conn[c].runs >= 1 => conn[c].lastDate # ZeroTime /\ conn[c].readEnd >= 0
    /\ conn[c].pc \in {"capOpen", "capRead", "run"} => conn[c].runs = 0
    /\ conn[c].pc \in {"capOpen", "capRead", "run", "running"} => conn[c].iters = 0
    /\ conn[c].pc \in {"running", "pollOpen", "pollSeek", "poll"} => conn[c].runs = 1
    /\ conn[c].iters >= 1 => conn[c].runs = 1
    /\ conn[c].hit => After(timeFromLog(conn[c].seen).date, conn[c].lastDate)

\* C19: in one reindex the watermark is captured before cmd.Run() is
\* called, waitForRotation is entered only when cmd.Run() has returned, and
\* the loop reads only after that; the watermark is set once, by the
\* request's own capture, and no step of one handler changes the watermark
\* of another.
C19_StepsOrdered ==
    /\ [](server = "listening" => \A c \in DOMAIN conn : OrderedSoFar(c))
    /\ [][server' = "listening" =>
            \A c \in DOMAIN conn :
              /\ conn'[c].lastDate # conn[c].lastDate
                    => /\ conn[c].pc = "capRead"
                       /\ conn[c].lastDate = ZeroTime
                       /\ \A o \in DOMAIN conn \ {c} : conn'[o] = conn[o]
              /\ (conn'[c].pc = "running" /\ conn[c].pc # "running")
                    => conn[c].pc = "run" /\ conn[c].lastDate # ZeroTime
              /\ (conn'[c].pc = "pollOpen" /\ conn[c].pc # "pollOpen")
                    => conn[c].pc = "running"
              /\ conn'[c].iters > conn[c].iters
                    => conn[c].pc = "poll" /\ conn'[c].lastDate = conn[c].lastDate]_vars

\* a polls against its watermark while b, which captured its own, waits for
\* its indexer
C19_Witness ==
    \E a \in DOMAIN conn : \E b \in DOMAIN conn \ {a} :
        /\ conn[a].pc = "poll"
        /\ conn[a].iters >= 1
        /\ conn[a].lastDate = baseDate
        /\ conn[b].pc = "running"
        /\ conn[b].lastDate = baseDate
        /\ conn[b].iters = 0
====
